---- MODULE Spec2Model ----
(***************************************************************************)
(* Daylight analysis: extraction of rooms and windows from an IFC model    *)
(* (daylight_analysis_load_IFC_data.py) and their assembly and placement   *)
(* for the simulation (main.py).                                           *)
(*                                                                         *)
(* Numbers.  Python floats are modelled as integers.  Values that the code *)
(* rounds with round(v, 3) are held in units of 1e-4 m before rounding and *)
(* in millimetres (1e-3 m) after it.  Values the code never rounds         *)
(* (placement coordinates, wall lengths) are held in millimetres.  Python  *)
(* lists are sequences, indexed from 1 where Python indexes from 0.        *)
(***************************************************************************)
EXTENDS Integers, Sequences, FiniteSets, TLC

VARIABLES
    pc,            \* position of the running script
    model,         \* the IFC model read by ifcopenshell.open (read-only)
    windowSheet,   \* lines handed to excelWrite for the "Windows" sheet
    spaceOut,      \* main.py global spaceOut
    windowOut,     \* main.py global windowOut
    AnalysisSpace, \* main.py: the Spaces object bound to AnalysisSpace
    MyAnalysis,    \* main.py resultsOut: the Analysis object (its Spaces.spaces)
    spacename,     \* the space code typed at the prompt
    excelArg,      \* the lines of each call of excelWrite, in order of the calls
    excelOut,      \* what each call of excelWrite did
    most_materials,\* main() of the loader: most_materials
    wallHeader,    \* the material headers written to row 0 of the "Walls" sheet
    resultList,    \* main.py resultsOut: resultList
    report,        \* main.py resultsOut: count, countT and the verdict printed
    printed,       \* what Spaces.print(spacename) printed
    spaceNameList, \* main.py: spaceNameList
    lightTr,       \* main.py: lightTr
    gridsize,      \* main.py: gridsize
    analysisPlaneHeight, \* main.py: analysisPlaneHeight
    printInfo,     \* main.py: printInfo, the text typed and then True or False
    showPlot,      \* main.py: showPlot, likewise
    blur,          \* main.py: blur, likewise
    plot           \* main.py resultsOut: z and the interpolation handed to plt.imshow

vars == <<pc, model, windowSheet, spaceOut, windowOut, AnalysisSpace,
          MyAnalysis, spacename, excelArg, excelOut, most_materials,
          wallHeader, resultList, report, printed, spaceNameList, lightTr,
          gridsize, analysisPlaneHeight, printInfo, showPlot, blur, plot>>

\* what the user interface of main.py binds
answers == <<lightTr, gridsize, analysisPlaneHeight, printInfo, showPlot, blur>>

-----------------------------------------------------------------------------
(* Bounds of the model *)

MaxCand == 2     \* elements returned by t.select_box(window)
MaxSpaces == 2   \* IfcSpace entities of the model
MaxBox == 2      \* windows returned by t.select_box(space, extend=0.5)
MaxPoints == 3   \* points of the outer curve of a polygon profile
MaxLines == 2    \* lines handed to one call of excelWrite
MaxCells == 2    \* cells of one line
MaxGrid == 2     \* points of the analysis grid
MaxBounded == 2  \* space boundaries of one space (space.BoundedBy)

-----------------------------------------------------------------------------
(* Python values *)

\* Python None where a number is expected
NoneVal == -1

\* sillHeight = 0.1, in millimetres
DefaultSill == 100

RECURSIVE PowMod2(_, _)
\* 2^j modulo o
PowMod2(j, o) == IF j = 0 THEN 1 % o ELSE (2 * PowMod2(j - 1, o)) % o

RECURSIVE Log2Floor(_, _)
\* the largest p with o * 2^p <= n, for n >= o
Log2Floor(n, o) == IF 2 * o > n THEN 0 ELSE 1 + Log2Floor(n, 2 * o)

RECURSIVE Log2Up(_, _)
\* the smallest q with n * 2^q >= o
Log2Up(n, o) == IF n >= o THEN 0 ELSE 1 + Log2Up(2 * n, o)

\* The float that holds the decimal n / (2^s * o), n > 0 and o odd, is the
\* nearest number m * 2^e with a mantissa m of 53 bits: -1 when it is below
\* the decimal, 1 when it is above, 0 when it is the decimal exactly.  With
\* j the shift that brings n * 2^j / o into [2^52, 2^53), m is that quotient
\* rounded, so the side is decided by the remainder of n * 2^j modulo o.
FloatError(n, o) ==
    LET j == IF n >= o THEN 52 - Log2Floor(n, o) ELSE 52 + Log2Up(n, o)
        rem == ((n % o) * PowMod2(j, o)) % o
    IN  IF rem = 0 THEN 0 ELSE IF 2 * rem < o THEN -1 ELSE 1

\* the decimal n / d rounded to a whole number the way Python rounds and
\* formats a float: to the nearest, and on a decimal tie by the side the
\* float lies on (to even when the float is the tie exactly); o is the odd
\* part of the denominator of the unit n is held in.  n >= 0.
RoundFloat(n, d, o) ==
    LET q == n \div d
        r == n % d
        side == FloatError(n, o)
    IN  IF 2 * r < d THEN q
        ELSE IF 2 * r > d THEN q + 1
        ELSE IF side < 0 THEN q
        ELSE IF side > 0 THEN q + 1
        ELSE IF q % 2 = 0 THEN q ELSE q + 1

RECURSIVE Pow2(_)
Pow2(k) == IF k = 0 THEN 1 ELSE 2 * Pow2(k - 1)

\* floor(log2(n / o)), n > 0
Log2(n, o) == IF n >= o THEN Log2Floor(n, o) ELSE 0 - Log2Up(n, o)

\* the shift j of the float that holds n / (2^s * o): its mantissa counts
\* units of 2^(-j) of n / o
FloatShift(n, o) == 52 - Log2(n, o)

\* (n * 2^j - m * o) for the mantissa m of that float: the decimal minus the
\* float, in units of 1 / (o * 2^j)
FloatRemainder(n, o) ==
    LET rem == ((n % o) * PowMod2(FloatShift(n, o), o)) % o
    IN  IF 2 * rem < o THEN rem ELSE rem - o

RECURSIVE SolveLow(_, _, _, _, _)
\* the number N below 2^m with o * N = C modulo 2^m, found bit by bit from
\* bit i on (n holds the bits below i)
SolveLow(C, m, o, i, n) ==
    IF i = m THEN n
    ELSE IF (C - o * n) % Pow2(i + 1) # 0
    THEN SolveLow(C, m, o, i + 1, n + Pow2(i))
    ELSE SolveLow(C, m, o, i + 1, n)

\* the float that holds the decimal t / (2^s * o), minus that decimal, in units
\* of 1 / (o * 2^J); t may be negative, J is at least the float's shift
TermError(t, o, J) ==
    IF t = 0 THEN 0
    ELSE IF t > 0
    THEN 0 - FloatRemainder(t, o) * Pow2(J - FloatShift(t, o))
    ELSE FloatRemainder(0 - t, o) * Pow2(J - FloatShift(0 - t, o))

\* the larger of the shifts of the floats that hold t1 and t2
MaxShift(t1, t2, o) ==
    LET s1 == IF t1 = 0 THEN 0 ELSE FloatShift(IF t1 < 0 THEN 0 - t1 ELSE t1, o)
        s2 == IF t2 = 0 THEN 0 ELSE FloatShift(IF t2 < 0 THEN 0 - t2 ELSE t2, o)
    IN  IF s1 > s2 THEN s1 ELSE s2

\* floor(log2) of the exact sum of the two floats: that of the decimal D / o
\* (p0), one less when the decimal is a power of two and the sum is below it
SumExponent(D, o, e1, p0) ==
    IF p0 >= 0 /\ D = o * Pow2(p0) /\ e1 < 0 THEN p0 - 1 ELSE p0

\* N is rounded to a multiple of 2^t, to the nearest and on a tie to the even
\* one: the amount added to N
RoundLow(N, t) ==
    LET low == N % Pow2(t)
        half == Pow2(t - 1)
    IN  IF low > half \/ (low = half /\ (N \div Pow2(t)) % 2 = 1)
        THEN Pow2(t) - low ELSE 0 - low

\* the exact sum of the two floats is a whole number N of units 2^(-J) and
\* differs from the decimal by e1 units of 1 / (o * 2^J), so o * N = e1
\* modulo 2^(t + 1); rounding the sum to 53 bits drops the t low bits of N
RoundedSumError(e1, t, o) ==
    IF t <= 0 THEN e1
    ELSE e1 + o * RoundLow(SolveLow(e1 % Pow2(t + 1), t + 1, o, 0, 0), t)

SumErrorSign(e1, D, o, J) ==
    LET e == RoundedSumError(e1, SumExponent(D, o, e1, Log2(D, o)) - 52 + J, o)
    IN  IF e < 0 THEN -1 ELSE IF e > 0 THEN 1 ELSE 0

SumErrorAt(t1, t2, o, J) ==
    SumErrorSign(TermError(t1, o, J) + TermError(t2, o, J), t1 + t2, o, J)

\* x + y computed in floating point, for the floats x and y that hold the
\* decimals t1 / (2^s * o) and t2 / (2^s * o), t1 + t2 > 0: -1 when the float
\* computed is below the decimal (t1 + t2) / (2^s * o), 1 when it is above,
\* 0 when it is that decimal
FloatSumError(t1, t2, o) == SumErrorAt(t1, t2, o, MaxShift(t1, t2, o))

\* round(b - a, 3) for the floats b and a held in units of 1e-4: the
\* difference is computed in floating point and that float is rounded.  The
\* result is in millimetres.
RoundSub3(b, a) ==
    LET big == IF b >= a THEN b ELSE a
        small == IF b >= a THEN a ELSE b
        D == big - small
        q == D \div 10
        r == D % 10
        side == FloatSumError(big, 0 - small, 625)
        rounded == IF r < 5 THEN q
                   ELSE IF r > 5 THEN q + 1
                   ELSE IF side < 0 THEN q
                   ELSE IF side > 0 THEN q + 1
                   ELSE IF q % 2 = 0 THEN q ELSE q + 1
    IN  IF b >= a THEN rounded ELSE 0 - rounded

\* round(v, 3) for the float v held in units of 1e-4 (= 1 / (2^4 * 625)):
\* the result is in millimetres.
Round3(v) ==
    IF v < 0 THEN 0 - RoundFloat(0 - v, 10, 625) ELSE RoundFloat(v, 10, 625)

\* sub in s for two Python strings
In(sub, s) ==
    \E i \in 1..(Len(s) - Len(sub) + 1) : SubSeq(s, i, i + Len(sub) - 1) = sub

\* all sequences over S of length at most n
SeqsUpTo(S, n) == UNION { [1..k -> S] : k \in 0..n }

\* sequences of length at most n over S without repeated elements
DistinctSeqs(S, n) ==
    { s \in SeqsUpTo(S, n) : \A i, j \in 1..Len(s) : i # j => s[i] # s[j] }

RECURSIVE Flatten(_)
\* [val for sublist in xs for val in sublist]
Flatten(xs) == IF xs = <<>> THEN <<>> ELSE Head(xs) \o Flatten(Tail(xs))

-----------------------------------------------------------------------------
(* daylight_analysis_load_IFC_data.py: windowParams *)

\* wall.ObjectPlacement.RelativePlacement.RefDirection is None (<<>>) or an
\* entity whose attribute 0 is the direction ratios (<<ratios>>).
ZeroDirection == << <<0, 0, 0>> >>

\* One wall-type candidate of the loop: the branch on the reference direction.
\* No branch matches a non-canonical direction, so wall_name keeps its value.
wallName(prev, RefDirection) ==
    LET placement0 == IF RefDirection = <<>> THEN ZeroDirection ELSE RefDirection
        placement == placement0[1]
    IN  IF placement = <<0, 0, 0>> THEN "front"
        ELSE IF placement = <<0, -1, 0>> THEN "right"
        ELSE IF placement = <<0, 1, 0>> THEN "left"
        ELSE IF placement = <<-1, 0, 0>> THEN "back"
        ELSE prev

RECURSIVE wallLoop(_, _)
\* for wall in t.select_box(window): ...   st = [wall_name, wall_length]
wallLoop(st, cands) ==
    IF cands = <<>> THEN st
    ELSE LET wall == Head(cands)
         IN  IF wall.isWall
             THEN wallLoop([wall_name |-> wallName(st.wall_name, wall.RefDirection),
                            wall_length |-> wall.Length],
                           Tail(cands))
             ELSE wallLoop(st, Tail(cands))

\* try: round(sillHeight, 3) except: sillHeight
roundSill(sillHeight) ==
    IF sillHeight = NoneVal THEN sillHeight ELSE Round3(sillHeight)

\* windowParams(window, excelFormat)
windowParams(window, excelFormat) ==
    LET windowHeight == window.Height
        windowWidth == window.Width
        sillHeight == window.SillHeight
        windowLocation == window.Location
        loc_x == windowLocation[1]
        loc_y == windowLocation[3]
        st == wallLoop([wall_name |-> "", wall_length |-> 0], window.box)
    IN  IF excelFormat
        THEN << <<2, window.Name>>, <<3, window.Tag>>,
                <<4, Round3(windowHeight)>>, <<5, Round3(windowWidth)>>,
                <<6, sillHeight>> >>
        ELSE << window.Tag, Round3(windowHeight), Round3(windowWidth),
                roundSill(sillHeight), st.wall_name, st.wall_length,
                loc_x, loc_y >>

-----------------------------------------------------------------------------
(* daylight_analysis_load_IFC_data.py: intersectingObjects, spaceFunc *)

\* the xlsxwriter format object cell_format
cell_format == "cell_format"

\* "Glass" in door.Name
GlassIn(name) == In("Glass", name)

\* doorParams(door)
doorParams(door) ==
    LET doorHeight == door.OverallHeight
        doorWidth == door.OverallWidth
    IN  << <<2, door.Name>>, <<3, door.Tag>>,
           <<4, IF GlassIn(door.Name) THEN "External Glass Door"
                ELSE "External No-glass Door">>,
           <<5, Round3(doorHeight)>>, <<6, Round3(doorWidth)>> >>

RECURSIVE propLoopAnyValue(_, _, _)
\* the loop over the properties keeping a door for any IsExternal property
propLoopAnyValue(out, obj, doorProps) ==
    IF doorProps = <<>> THEN out
    ELSE LET prop == Head(doorProps)
         IN  IF prop.Name = "IsExternal"
             THEN propLoopAnyValue(Append(out, doorParams(obj)), obj, Tail(doorProps))
             ELSE propLoopAnyValue(out, obj, Tail(doorProps))

RECURSIVE propLoop(_, _, _)
\* for prop in doorProps: if prop.Name == "IsExternal":
\*     if prop.NominalValue.wrappedValue == True: out.append(doorParams(obj))
propLoop(out, obj, doorProps) ==
    IF doorProps = <<>> THEN out
    ELSE LET prop == Head(doorProps)
         IN  IF prop.Name = "IsExternal" /\ prop.wrappedValue = TRUE
             THEN propLoop(Append(out, doorParams(obj)), obj, Tail(doorProps))
             ELSE propLoop(out, obj, Tail(doorProps))

RECURSIVE relLoop(_, _, _)
\* for relDefinesByProperties in obj.IsDefinedBy:
\*     if "IfcRelDefinesByProperties" in str(relDefinesByProperties): ...
relLoop(out, obj, rels) ==
    IF rels = <<>> THEN out
    ELSE LET relDefinesByProperties == Head(rels)
         IN  IF In("IfcRelDefinesByProperties", relDefinesByProperties.str)
             THEN relLoop(propLoop(out, obj, relDefinesByProperties.HasProperties),
                          obj, Tail(rels))
             ELSE relLoop(out, obj, Tail(rels))

\* str(n) of one decimal digit
Digit(n) == <<"0", "1", "2", "3", "4", "5", "6", "7", "8", "9">>[n + 1]

RECURSIVE StrInt(_)
\* str(n) of a natural number
StrInt(n) == IF n < 10 THEN Digit(n) ELSE StrInt(n \div 10) \o Digit(n % 10)

\* str(v) of a float v >= 0 held in millimetres: the shortest decimal that
\* reads back as the float, with at least one digit behind the point
StrFloat(v) ==
    LET f == v % 1000
        frac == IF f % 100 = 0 THEN Digit(f \div 100)
                ELSE IF f % 10 = 0 THEN Digit(f \div 100) \o Digit((f \div 10) % 10)
                ELSE Digit(f \div 100) \o Digit((f \div 10) % 10) \o Digit(f % 10)
    IN  StrInt(v \div 1000) \o "." \o frac

RECURSIVE layerLoop(_, _)
\* for MaterialLayers in ...MaterialLayers: ...   st = [out, col]
layerLoop(st, layers) ==
    IF layers = <<>> THEN st
    ELSE LET MaterialLayers == Head(layers)
         IN  layerLoop([out |-> st.out \o
                                << <<st.col, MaterialLayers.Name>>,
                                   <<st.col + 1, StrFloat(MaterialLayers.LayerThickness)>> >>,
                        col |-> st.col + 2],
                       Tail(layers))

RECURSIVE associationLoop(_, _)
\* for relAssociatesMaterial in ifcElement.HasAssociations: ...
associationLoop(st, rels) ==
    IF rels = <<>> THEN st
    ELSE LET relAssociatesMaterial == Head(rels)
             num_materials == Len(relAssociatesMaterial.MaterialLayers)
         IN  associationLoop(
                layerLoop([out |-> Append(st.out, <<st.col, num_materials>>),
                           col |-> st.col + 1],
                          relAssociatesMaterial.MaterialLayers),
                Tail(rels))

\* getMaterialAndQuantities(ifcElement)
getMaterialAndQuantities(ifcElement) ==
    IF ~In("Roof", ifcElement.Name)
    THEN associationLoop([out |-> <<>>, col |-> 5], ifcElement.HasAssociations).out
    ELSE <<>>

RECURSIVE wallPropLoop(_, _)
\* for prop in wallProps: if prop.Name == "IsExternal": outWall.append(...)
wallPropLoop(outWall, wallProps) ==
    IF wallProps = <<>> THEN outWall
    ELSE LET prop == Head(wallProps)
         IN  IF prop.Name = "IsExternal"
             THEN wallPropLoop(Append(outWall, <<4, prop.wrappedValue>>), Tail(wallProps))
             ELSE wallPropLoop(outWall, Tail(wallProps))

RECURSIVE wallRelLoop(_, _)
\* for relDefinesByProperties in wall.IsDefinedBy: ...
wallRelLoop(outWall, rels) ==
    IF rels = <<>> THEN outWall
    ELSE LET relDefinesByProperties == Head(rels)
         IN  IF In("IfcRelDefinesByProperties", relDefinesByProperties.str)
             THEN wallRelLoop(wallPropLoop(outWall, relDefinesByProperties.HasProperties),
                              Tail(rels))
             ELSE wallRelLoop(outWall, Tail(rels))

\* wallParams(wall)
wallParams(wall) ==
    wallRelLoop(<< <<2, wall.Name>>, <<3, wall.Tag>> >>, wall.IsDefinedBy)
        \o getMaterialAndQuantities(wall)

\* Python None where an entity is expected
NoneEntity == [type |-> "None"]

\* entity.is_a("IfcWall"): the entity is an IfcWall or of a subtype of it
IsAWall(entity) == entity.type \in {"IfcWall", "IfcWallStandardCase"}

RECURSIVE boundedLoop(_, _, _)
\* for obj in space.BoundedBy: ...
boundedLoop(out, objs, wallsOnly) ==
    IF objs = <<>> THEN out
    ELSE LET obj == Head(objs)
         IN  IF obj.RelatedBuildingElement # NoneEntity /\ wallsOnly
                /\ IsAWall(obj.RelatedBuildingElement)
             THEN boundedLoop(Append(out, wallParams(obj.RelatedBuildingElement)),
                              Tail(objs), wallsOnly)
             ELSE boundedLoop(out, Tail(objs), wallsOnly)

RECURSIVE headersAssociationLoop(_, _)
\* getMaterialAndQuantitiesHeaders: for relAssociatesMaterial in ...
headersAssociationLoop(most_materials_, rels) ==
    IF rels = <<>> THEN most_materials_
    ELSE LET num_materials == Len(Head(rels).MaterialLayers)
         IN  headersAssociationLoop(
                IF num_materials > most_materials_ THEN num_materials
                ELSE most_materials_,
                Tail(rels))

RECURSIVE headersBoundedLoop(_, _)
\* getMaterialAndQuantitiesHeaders: for obj in space.BoundedBy: ...
headersBoundedLoop(most_materials_, objs) ==
    IF objs = <<>> THEN most_materials_
    ELSE LET element == Head(objs).RelatedBuildingElement
         IN  IF element # NoneEntity /\ IsAWall(element) /\ ~In("Roof", element.Name)
             THEN headersBoundedLoop(
                    headersAssociationLoop(most_materials_, element.HasAssociations),
                    Tail(objs))
             ELSE headersBoundedLoop(most_materials_, Tail(objs))

RECURSIVE headersSpaceLoop(_, _)
\* getMaterialAndQuantitiesHeaders: for space in spaces: ...
headersSpaceLoop(most_materials_, spaces) ==
    IF spaces = <<>> THEN most_materials_
    ELSE headersSpaceLoop(headersBoundedLoop(most_materials_, Head(spaces).BoundedBy),
                          Tail(spaces))

\* getMaterialAndQuantitiesHeaders(spaces)
getMaterialAndQuantitiesHeaders(spaces) == headersSpaceLoop(0, spaces)

RECURSIVE boxLoop(_, _, _, _, _)
\* for obj in t.select_box(space, extend=0.5): ...
boxLoop(out, objs, windowsOnly, doorsOnly, excelFormat) ==
    IF objs = <<>> THEN out
    ELSE LET obj == Head(objs)
         IN  IF obj.type = "IfcWindow" /\ windowsOnly
             THEN boxLoop(Append(out, windowParams(obj, excelFormat)),
                          Tail(objs), windowsOnly, doorsOnly, excelFormat)
             ELSE IF obj.type = "IfcDoor" /\ doorsOnly
             THEN boxLoop(relLoop(out, obj, obj.IsDefinedBy),
                          Tail(objs), windowsOnly, doorsOnly, excelFormat)
             ELSE boxLoop(out, Tail(objs), windowsOnly, doorsOnly, excelFormat)

\* intersectingObjects(space, windowsOnly=..., doorsOnly=..., wallsOnly=...,
\* excelFormat=...)
intersectingObjects(space, windowsOnly, doorsOnly, wallsOnly, excelFormat) ==
    LET out0 == IF excelFormat
                THEN << << <<0, space.LongName, cell_format>>,
                           <<1, space.Name, cell_format>>,
                           <<2, " ", cell_format>>,
                           <<3, " ", cell_format>>,
                           <<4, " ", cell_format>>,
                           <<5, " ", cell_format>>,
                           <<6, " ", cell_format>> >> >>
                ELSE <<space.LongName, space.Name>>
    IN  boundedLoop(boxLoop(out0, space.box, windowsOnly, doorsOnly, excelFormat),
                    space.BoundedBy, wallsOnly)

RECURSIVE spaceFuncNested(_, _, _, _, _)
\* spaceFunc(spaces, [intersectingObjects], nested=True, windowsOnly=...,
\* doorsOnly=..., wallsOnly=..., excelFormat=...): the rows of each space are
\* spliced in for the report and kept as one entry per space otherwise.
spaceFuncNested(spaces, windowsOnly, doorsOnly, wallsOnly, excelFormat) ==
    IF spaces = <<>> THEN <<>>
    ELSE LET rows == intersectingObjects(Head(spaces), windowsOnly, doorsOnly,
                                         wallsOnly, excelFormat)
             rest == spaceFuncNested(Tail(spaces), windowsOnly, doorsOnly,
                                     wallsOnly, excelFormat)
         IN  IF excelFormat THEN rows \o rest ELSE <<rows>> \o rest

-----------------------------------------------------------------------------
(* daylight_analysis_load_IFC_data.py: spaceDims, arbiClosOut, SpaceParams *)

\* Python None where a list is expected (the value spaceDims returns for a
\* skipped space).  No list of the program has this shape.
NoneRow == <<"None">>

RECURSIVE SeqMin(_)
SeqMin(s) ==
    IF Len(s) = 1 THEN s[1]
    ELSE LET m == SeqMin(Tail(s)) IN IF s[1] < m THEN s[1] ELSE m

RECURSIVE SeqMax(_)
SeqMax(s) ==
    IF Len(s) = 1 THEN s[1]
    ELSE LET m == SeqMax(Tail(s)) IN IF s[1] > m THEN s[1] ELSE m

\* min() and max() of an empty sequence raise ValueError
arbiClosOutRaises(prop) == prop.Points = <<>>

\* the dimensions taken from the first and the last point of the curve
arbiClosOutEnds(prop) ==
    LET points == prop.Points
    IN  << <<2, RoundSub3(points[Len(points)][1], points[1][1]), cell_format>>,
           <<3, RoundSub3(points[Len(points)][2], points[1][2]), cell_format>> >>

\* arbiClosOut(prop, points), called with points = []
arbiClosOut(prop) ==
    LET points == prop.Points
        xs == [i \in 1..Len(points) |-> points[i][1]]
        ys == [i \in 1..Len(points) |-> points[i][2]]
        bot_left_x == SeqMin(xs)
        bot_left_y == SeqMin(ys)
        top_right_x == SeqMax(xs)
        top_right_y == SeqMax(ys)
    IN  \* XDim = top_right_x - bot_left_x and YDim likewise are floats
        << <<2, RoundSub3(top_right_x, bot_left_x), cell_format>>,
           <<3, RoundSub3(top_right_y, bot_left_y), cell_format>> >>

\* the exception spaceDims lets through
spaceDimsRaises(space) ==
    /\ space.LongName # "Hallway" /\ space.LongName # "Roof"
    /\ space.prop.kind = "IfcArbitraryClosedProfileDef"
    /\ arbiClosOutRaises(space.prop)

\* spaceDims with a Roof of rectangular profile let through
spaceDimsHallwayOnly(space) ==
    IF /\ space.LongName # "Hallway"
       /\ space.LongName # "Roof" \/ space.prop.kind = "IfcRectangleProfileDef"
    THEN LET prop == space.prop
             out0 == << <<0, space.LongName>>, <<1, space.Name>> >>
             out1 == IF prop.kind = "IfcRectangleProfileDef"
                     THEN out0 \o << <<3, Round3(prop.YDim)>>, <<2, Round3(prop.XDim)>> >>
                     ELSE out0 \o arbiClosOut(prop)
         IN  Append(out1, <<4, Round3(space.Height)>>)
    ELSE NoneRow

\* spaceDims(space)
spaceDims(space) ==
    IF space.LongName # "Hallway" /\ space.LongName # "Roof"
    THEN LET prop == space.prop
             out0 == << <<0, space.LongName>>, <<1, space.Name>> >>
             out1 == IF prop.kind = "IfcRectangleProfileDef"
                     THEN LET a == <<2, Round3(prop.XDim)>>
                              b == <<3, Round3(prop.YDim)>>
                          IN  out0 \o <<b, a>>
                     ELSE IF prop.kind = "IfcArbitraryClosedProfileDef"
                     THEN LET ab == arbiClosOut(prop)
                          IN  out0 \o <<ab[1], ab[2]>>
                     ELSE out0
         IN  Append(out1, <<4, Round3(space.Height)>>)
    ELSE NoneRow

\* SpaceParams(out, excelFormat=False).out: the second item of every cell
SpaceParamsOut(out) ==
    LET src == IF out # NoneRow THEN out ELSE <<>>
        analysisOut == [i \in 1..Len(src) |-> SubSeq(src[i], 2, 2)]
    IN  Flatten(analysisOut)

RECURSIVE spaceOutLoop(_)
\* main.py: for i in spaces: out.append(SpaceParams(spaceDims(i), False).out)
spaceOutLoop(spaces) ==
    IF spaces = <<>> THEN <<>>
    ELSE <<SpaceParamsOut(spaceDims(Head(spaces)))>> \o spaceOutLoop(Tail(spaces))

\* main.py: spaceOut = [x for x in out if x != []]
makeSpaceOut(spaces) ==
    SelectSeq(spaceOutLoop(spaces), LAMBDA x : x # <<>>)

\* main.py: windowOut = SpaceParams(spaceFunc(...)).out without empty entries
makeWindowOut(spaces) ==
    SelectSeq(spaceFuncNested(spaces, TRUE, FALSE, FALSE, FALSE),
              LAMBDA x : x # <<>>)

-----------------------------------------------------------------------------
(* main.py: Spaces.__init__ *)

\* the Window built without the default for a missing sill height
makeWindowNoDefault(p) ==
    [name |-> p[1], wx |-> p[2], wy |-> p[3], sillHeight |-> p[4],
     wall_name |-> p[5], wall_length |-> p[6], loc_x |-> p[7], loc_y |-> p[8]]

\* Window(windowName, wx, wy, sillHeight, wall_name, wall_length, loc_x, loc_y)
\* from one entry p of a window record
makeWindow(p) ==
    LET windowName == p[1]
        wx == p[2]
        wy == p[3]
        sillHeight == IF p[4] = NoneVal THEN DefaultSill ELSE p[4]
        wall_name == p[5]
        wall_length == p[6]
        loc_x == p[7]
        loc_y == p[8]
    IN  [name |-> windowName, wx |-> wx, wy |-> wy, sillHeight |-> sillHeight,
         wall_name |-> wall_name, wall_length |-> wall_length,
         loc_x |-> loc_x, loc_y |-> loc_y]

\* the match made on the descriptive name instead of the code
belongsToByLongName(windowParam, spaceParam) == windowParam[1] = spaceParam[1]

\* if windowParam[1] == spaceParam[1]
belongsTo(windowParam, spaceParam) == windowParam[2] = spaceParam[2]

RECURSIVE windowLoopFromRecord(_, _)
\* the loop building the windows from every list the room record holds after
\* the append, those of earlier constructions included
windowLoopFromRecord(st, windowOut_) ==
    IF windowOut_ = <<>> THEN st
    ELSE LET windowParam == Head(windowOut_)
             spaceParam == Append(st.spaceParam,
                                  SubSeq(windowParam, 3, Len(windowParam)))
             entries == Flatten(SubSeq(spaceParam, 6, Len(spaceParam)))
         IN  IF belongsTo(windowParam, st.spaceParam)
             THEN windowLoopFromRecord(
                    [spaceParam |-> spaceParam,
                     windows |-> [i \in 1..Len(entries) |-> makeWindow(entries[i])]],
                    Tail(windowOut_))
             ELSE windowLoopFromRecord(st, Tail(windowOut_))

RECURSIVE windowLoop(_, _)
\* for windowParam in windowOut: ...   st = [spaceParam, windows]
windowLoop(st, windowOut_) ==
    IF windowOut_ = <<>> THEN st
    ELSE LET windowParam == Head(windowOut_)
         IN  IF belongsTo(windowParam, st.spaceParam)
             THEN windowLoop(
                    [spaceParam |-> Append(st.spaceParam,
                                           SubSeq(windowParam, 3, Len(windowParam))),
                     windows |-> st.windows \o
                                 [i \in 1..(Len(windowParam) - 2) |->
                                     makeWindow(windowParam[i + 2])]],
                    Tail(windowOut_))
             ELSE windowLoop(st, Tail(windowOut_))

\* one pass of the outer loop: the Space built from spaceParam, and spaceParam
\* as the pass leaves it
makeSpace(spaceParam, windowOut_) ==
    LET longName == spaceParam[1]
        spaceId == spaceParam[2]
        sx == spaceParam[3]
        sy == spaceParam[4]
        sz == spaceParam[5]
        st == windowLoop([spaceParam |-> spaceParam, windows |-> <<>>], windowOut_)
    IN  [space |-> [longName |-> longName, name |-> spaceId,
                    windows |-> st.windows, sx |-> sx, sy |-> sy, sz |-> sz],
         spaceParam |-> st.spaceParam]

\* Spaces(spaceOut, windowOut): self.spaces, and spaceOut as the call leaves it
SpacesInit(spaceOut_, windowOut_) ==
    [spaces |-> [k \in 1..Len(spaceOut_) |->
                    makeSpace(spaceOut_[k], windowOut_).space],
     spaceOut |-> [k \in 1..Len(spaceOut_) |->
                    makeSpace(spaceOut_[k], windowOut_).spaceParam]]

-----------------------------------------------------------------------------
(* main.py: Analysis *)

\* The surfaces of a honeybee Room, by name, in the order of room.surfaces.
\* The order is the library's; no property below depends on which is last.
SurfaceNames == <<"floor", "ceiling", "back", "right", "front", "left">>

\* Analysis.__createRoom(space)
createRoom(space) ==
    [origin |-> <<0, 0, 0>>, width |-> space.sx, depth |-> space.sy,
     height |-> space.sz, rotation_angle |-> 0,
     surfaces |-> [i \in 1..Len(SurfaceNames) |->
                      [name |-> SurfaceNames[i], fenestration |-> <<>>]]]

\* str(i) of a honeybee surface: the class name and the surface's name
strOfSurface(surface) == "HBSurface::" \o surface.name

\* window.wall_name in str(i): the empty string is in every string
nameIn(wall_name, surface) == In(wall_name, strOfSurface(surface))

\* the surface hbsurface is bound to when the loop over room.surfaces ends:
\* the last one that matches (0 when none does)
hbsurfaceOf(room, window) ==
    LET hits == { i \in 1..Len(room.surfaces) :
                     nameIn(window.wall_name, room.surfaces[i]) }
    IN  IF hits = {} THEN 0 ELSE CHOOSE i \in hits : \A j \in hits : j <= i

\* the correction applied when loc_x exceeds either dimension
correctedLocXEither(space, window) ==
    IF window.loc_x > space.sx \/ window.loc_x > space.sy
    THEN window.wall_length - window.loc_x - window.wx
    ELSE window.loc_x

\* if window.loc_x > space.sx and window.loc_x > space.sy: ...
correctedLocX(space, window) ==
    IF window.loc_x > space.sx /\ window.loc_x > space.sy
    THEN window.wall_length - window.loc_x - window.wx
    ELSE window.loc_x

\* glzpts of the window as it stands
glazingPoints(window) ==
    << <<window.loc_x, 0, window.loc_y>>,
       <<window.loc_x + window.wx, 0, window.loc_y>>,
       <<window.loc_x + window.wx, 0, window.loc_y + window.wy>>,
       <<window.loc_x, 0, window.loc_y + window.wy>> >>

\* Analysis.__addWindows(space, window) for window = space.windows[k]: the
\* space with the window's loc_x rewritten and the glazing added to hbsurface.
\* When no surface matched, hbsurface is unbound at the last statement, which
\* raises UnboundLocalError after loc_x has been rewritten.
addWindows(space, k) ==
    LET window == space.windows[k]
        h == hbsurfaceOf(space.room, window)
        window2 == [window EXCEPT !.loc_x = correctedLocX(space, window)]
        glzsrf == [name |-> window2.name, glzpts |-> glazingPoints(window2)]
    IN  IF h = 0
        THEN [space |-> [space EXCEPT !.windows[k] = window2], raised |-> TRUE]
        ELSE [space |-> [space EXCEPT
                            !.windows[k] = window2,
                            !.room.surfaces[h].fenestration = Append(@, glzsrf)],
              raised |-> FALSE]

RECURSIVE addAllWindows(_, _)
\* for window in space.windows: self.__addWindows(space, window)
addAllWindows(space, k) ==
    IF k > Len(space.windows) THEN [space |-> space, raised |-> FALSE]
    ELSE LET r == addWindows(space, k)
         IN  IF r.raised THEN r ELSE addAllWindows(r.space, k + 1)

\* the body of the loop of Analysis.__init__ over self.Spaces.spaces
analyseSpace(space) ==
    LET withRoom == [x \in DOMAIN space \cup {"room"} |->
                        IF x = "room" THEN createRoom(space) ELSE space[x]]
    IN  addAllWindows(withRoom, 1)

RECURSIVE analysisLoop(_, _)
\* for space in self.Spaces.spaces: ...   st = [spaces, raised]; the spaces
\* behind one whose window raised are left as Spaces built them
analysisLoop(st, rest) ==
    IF rest = <<>> THEN st
    ELSE IF st.raised
    THEN analysisLoop([st EXCEPT !.spaces = Append(@, Head(rest))], Tail(rest))
    ELSE LET r == analyseSpace(Head(rest))
         IN  analysisLoop([spaces |-> Append(st.spaces, r.space),
                           raised |-> r.raised], Tail(rest))

\* Analysis(spaceOut, windowOut, spacename, ...): self.Spaces.spaces, spaceOut
\* as the call leaves it, and whether the call raised
AnalysisInit(spaceOut_, windowOut_) ==
    LET S == SpacesInit(spaceOut_, windowOut_)
        st == analysisLoop([spaces |-> <<>>, raised |-> FALSE], S.spaces)
    IN  [spaces |-> st.spaces, spaceOut |-> S.spaceOut, raised |-> st.raised]

-----------------------------------------------------------------------------
(* main.py: Spaces.print, resultsOut *)

\* "%0.2f" % v (d = 10) and "%0.1f" % v (d = 100) for the float v held in
\* millimetres (= 1 / (2^3 * 125)): the number printed, in units of the last
\* digit shown.
Fmt(v, d) ==
    IF v < 0 THEN 0 - RoundFloat(0 - v, d, 125) ELSE RoundFloat(v, d, 125)

\* the line Spaces.print prints for the space
spaceLine(space) ==
    [Name |-> space.longName, Code |-> space.name, Width |-> Fmt(space.sx, 10),
     Depth |-> Fmt(space.sy, 10), Height |-> Fmt(space.sz, 100)]

\* the line Spaces.print prints for one window of the space
windowLine(window) ==
    [tag |-> window.name, Width |-> Fmt(window.wx, 10),
     Height |-> Fmt(window.wy, 10), sillHeight |-> Fmt(window.sillHeight, 10),
     wall_name |-> window.wall_name, wall_length |-> Fmt(window.wall_length, 10),
     loc_x |-> Fmt(window.loc_x, 10), loc_y |-> Fmt(window.loc_y, 10)]

RECURSIVE SpacesPrint(_, _)
\* Spaces.print(spacename) on self.spaces = spaces: the lines printed
SpacesPrint(spaces, spacename_) ==
    IF spaces = <<>> THEN <<>>
    ELSE LET space == Head(spaces)
             lines == IF space.name = spacename_
                      THEN <<spaceLine(space)>> \o
                           [i \in 1..Len(space.windows) |-> windowLine(space.windows[i])]
                      ELSE <<>>
         IN  lines \o SpacesPrint(Tail(spaces), spacename_)

RECURSIVE resultsLoop(_, _)
\* for value in MyAnalysis.returnAnalysis().combined_value_by_id(): ...
\* values holds value[0] of every grid point, in lux.  DFpoint >= 2.1 is
\* computed in floating point; for whole lux values it is value >= 210.
resultsLoop(st, values) ==
    IF values = <<>> THEN st
    ELSE LET value == Head(values)
             over == value * 100 * 10 >= 21 * 10000
         IN  resultsLoop([resultList |-> Append(st.resultList, value),
                          count |-> IF over THEN st.count + 1 ELSE st.count,
                          countT |-> st.countT + 1],
                         Tail(values))

\* the verdict with "more than half" for "at least half"
verdictOfStrict(count, countT) ==
    IF count * 100 > 50 * countT THEN "passes" ELSE "does not pass"

\* if DFresult >= 50 with DFresult = count / countT * 100, countT > 0
verdictOf(count, countT) ==
    IF count * 100 >= 50 * countT THEN "passes" ELSE "does not pass"

RECURSIVE spacedimLoop(_, _, _)
\* for space in AnalysisSpace.spaces: if space.name == spacename:
\*     spacedim = float(space.sx)
spacedimLoop(spacedim, spaces, spacename_) ==
    IF spaces = <<>> THEN spacedim
    ELSE spacedimLoop(IF Head(spaces).name = spacename_
                      THEN Head(spaces).sx ELSE spacedim,
                      Tail(spaces), spacename_)

\* x // y for the floats x >= 0 and y > 0 held in millimetres: the floor of
\* the quotient of the two floats, which is below that of the decimals when
\* the decimals divide evenly and the float of x is below k times that of y
\* (4.0 // 0.2 is 19.0)
FloorDiv(n, g) ==
    LET k == n \div g
    IN  IF n = 0 \/ n % g # 0 THEN k
        ELSE IF FloatRemainder(n, 125) * Pow2(FloatShift(g, 125) - FloatShift(n, 125))
                    > k * FloatRemainder(g, 125)
        THEN k - 1 ELSE k

\* dim = int(float(spacedim) // gridsize), gridsize > 0
dimOf(spacedim, gridsize_) == FloorDiv(spacedim, gridsize_)

RECURSIVE zOf(_, _)
\* z = [resultList[i : i + dim] for i in range(0, len(resultList), dim)]
zOf(resultList_, dim) ==
    IF resultList_ = <<>> THEN <<>>
    ELSE IF Len(resultList_) <= dim THEN <<resultList_>>
    ELSE <<SubSeq(resultList_, 1, dim)>>
            \o zOf(SubSeq(resultList_, dim + 1, Len(resultList_)), dim)

\* if blur == False: value = "nearest" elif blur == True: value = "gaussian"
interpolationOf(blur_) == IF blur_ THEN "gaussian" ELSE "nearest"

-----------------------------------------------------------------------------
(* main.py: the texts typed at the prompts *)

\* str.lower() of one character
LowerChar(c) ==
    LET upper == <<"A", "B", "C", "D", "E", "F", "G", "H", "I", "J", "K", "L",
                   "M", "N", "O", "P", "Q", "R", "S", "T", "U", "V", "W", "X",
                   "Y", "Z">>
        lower == <<"a", "b", "c", "d", "e", "f", "g", "h", "i", "j", "k", "l",
                   "m", "n", "o", "p", "q", "r", "s", "t", "u", "v", "w", "x",
                   "y", "z">>
    IN  IF \E i \in 1..26 : upper[i] = c
        THEN lower[CHOOSE i \in 1..26 : upper[i] = c]
        ELSE c

RECURSIVE Lower(_)
\* text.lower() for a text of ASCII characters
Lower(text) ==
    IF text = "" THEN ""
    ELSE LowerChar(SubSeq(text, 1, 1)) \o Lower(SubSeq(text, 2, Len(text)))

\* while answer.lower() not in {"yes", "no"}: answer = input(...)
yesNoAsksAgain(text) == Lower(text) \notin {"yes", "no"}

\* what the answer is bound to when the script waits next: the text while it
\* is neither yes nor no, else True for yes and False for no
yesNo(text) ==
    IF yesNoAsksAgain(text) THEN text ELSE Lower(text) = "yes"

RECURSIVE Strip(_)
\* the text without the blanks at its ends
Strip(text) ==
    IF text = "" THEN ""
    ELSE IF SubSeq(text, 1, 1) = " " THEN Strip(SubSeq(text, 2, Len(text)))
    ELSE IF SubSeq(text, Len(text), Len(text)) = " "
    THEN Strip(SubSeq(text, 1, Len(text) - 1))
    ELSE text

\* the text without a sign in front
Unsigned(text) ==
    IF text # "" /\ SubSeq(text, 1, 1) \in {"-", "+"}
    THEN SubSeq(text, 2, Len(text)) ELSE text

DigitValue(c) ==
    CHOOSE n \in 0..9 : Digit(n) = c

RECURSIVE AllDigits(_)
AllDigits(text) ==
    IF text = "" THEN TRUE
    ELSE /\ \E n \in 0..9 : Digit(n) = SubSeq(text, 1, 1)
         /\ AllDigits(SubSeq(text, 2, Len(text)))

\* the position of the first point of the text, Len(text) + 1 without one
PointAt(text) ==
    LET at == { i \in 1..Len(text) : SubSeq(text, i, i) = "." }
    IN  IF at = {} THEN Len(text) + 1 ELSE CHOOSE i \in at : \A j \in at : i <= j

RECURSIVE IntOf(_, _)
\* the number written by the digits, behind the number n read so far
IntOf(n, digits) ==
    IF digits = "" THEN n
    ELSE IntOf(10 * n + DigitValue(SubSeq(digits, 1, 1)),
               SubSeq(digits, 2, Len(digits)))

\* the digits behind the point at position p of the text
Decimals(t, p) == IF p >= Len(t) THEN "" ELSE SubSeq(t, p + 1, Len(t))

\* float(text) raises ValueError.  The texts are decimals (blanks, a sign,
\* digits, at most one point) or not numbers at all; exponents, inf, nan and
\* underscores are not typed.
floatRaises(text) ==
    LET t == Unsigned(Strip(text))
        p == PointAt(t)
        whole == SubSeq(t, 1, p - 1)
        frac == Decimals(t, p)
    IN  ~(AllDigits(whole) /\ AllDigits(frac) /\ Len(whole) + Len(frac) >= 1)

\* float(text) in millimetres, for a decimal of at most three decimals
float(text) ==
    LET s == Strip(text)
        t == Unsigned(s)
        p == PointAt(t)
        whole == SubSeq(t, 1, p - 1)
        frac == SubSeq(Decimals(t, p) \o "000", 1, 3)
        v == 1000 * IntOf(0, whole) + IntOf(0, frac)
    IN  IF SubSeq(s, 1, 1) = "-" THEN 0 - v ELSE v

-----------------------------------------------------------------------------
(* daylight_analysis_load_IFC_data.py: excelWrite *)

RECURSIVE cellLoopSkip(_, _, _)
\* the cell loop passing over a cell that has neither 2 nor 3 items
cellLoopSkip(st, vals, row) ==
    IF vals = <<>> THEN st
    ELSE LET val == Head(vals)
         IN  IF Len(val) = 2
             THEN cellLoopSkip([st EXCEPT !.writes = Append(@, <<row, val[1], val[2]>>)],
                               Tail(vals), row)
             ELSE IF Len(val) = 3
             THEN cellLoopSkip([st EXCEPT !.writes = Append(@, <<row, val[1], val[2], val[3]>>)],
                               Tail(vals), row)
             ELSE cellLoopSkip(st, Tail(vals), row)

RECURSIVE cellLoop(_, _, _)
\* for val in lines[i]: sheet.write(i + 1 + i_adjust, col, text[, formatting])
\* or raise Exception("DataError", ...).  A call of sheet.write is recorded
\* as the tuple of its arguments.
cellLoop(st, vals, row) ==
    IF vals = <<>> THEN st
    ELSE LET val == Head(vals)
         IN  IF Len(val) = 2
             THEN cellLoop([st EXCEPT !.writes = Append(@, <<row, val[1], val[2]>>)],
                           Tail(vals), row)
             ELSE IF Len(val) = 3
             THEN cellLoop([st EXCEPT !.writes = Append(@, <<row, val[1], val[2], val[3]>>)],
                           Tail(vals), row)
             ELSE [st EXCEPT !.raised = TRUE]

RECURSIVE lineLoopNoAdjust(_, _, _, _)
\* the line loop with i_adjust left alone at a None line
lineLoopNoAdjust(st, lines, i, i_adjust) ==
    IF st.raised \/ i >= Len(lines) THEN st
    ELSE IF lines[i + 1] = NoneRow
    THEN lineLoopNoAdjust(st, lines, i + 1, i_adjust)
    ELSE lineLoopNoAdjust(cellLoop(st, lines[i + 1], i + 1 + i_adjust),
                          lines, i + 1, i_adjust)

RECURSIVE lineLoop(_, _, _, _)
\* for i in range(0, len(lines)): ... (i counts from 0 as in the code)
lineLoop(st, lines, i, i_adjust) ==
    IF st.raised \/ i >= Len(lines) THEN st
    ELSE IF lines[i + 1] = NoneRow
    THEN lineLoop(st, lines, i + 1, i_adjust - 1)
    ELSE lineLoop(cellLoop(st, lines[i + 1], i + 1 + i_adjust),
                  lines, i + 1, i_adjust)

\* excelWrite(sheet, lines): the calls of sheet.write it makes, in order, and
\* whether it ended by raising the DataError exception
excelWrite(lines) ==
    lineLoop([writes |-> <<>>, raised |-> FALSE], lines, 0, 0)

\* the xlsxwriter format object cell_format2
cell_format2 == "cell_format2"

RECURSIVE wallHeaderLoop(_, _, _)
\* main(): for a in range(6, (most_materials * 2) + 6, 2): the header cells
\* written to row 0 of the "Walls" sheet, as calls of sheet.write
wallHeaderLoop(a, stop, material) ==
    IF a >= stop THEN <<>>
    ELSE << <<0, a, "Material " \o StrInt(material), cell_format2>>,
            <<0, a + 1, "Thickness", cell_format2>> >>
         \o wallHeaderLoop(a + 2, stop, material + 1)

RECURSIVE spaceFuncFlat(_)
\* spaceFunc(spaces, [spaceDims]): out.append(f(space))
spaceFuncFlat(spaces) ==
    IF spaces = <<>> THEN <<>>
    ELSE <<spaceDims(Head(spaces))>> \o spaceFuncFlat(Tail(spaces))

-----------------------------------------------------------------------------
(* The IFC models the script is run on *)

\* an element t.select_box(window) returns that is no IfcWallStandardCase
NoWall == [isWall |-> FALSE, Length |-> 0, RefDirection |-> <<>>]

Wall(length, dir) == [isWall |-> TRUE, Length |-> length, RefDirection |-> dir]

\* walls: every canonical direction, no direction at all, and a direction that
\* is not canonical; two lengths
Candidates ==
    { NoWall,
      Wall(4000, <<>>),
      Wall(4000, << <<0, 0, 0>> >>),
      Wall(6000, << <<0, -1, 0>> >>),
      Wall(4000, << <<0, 1, 0>> >>),
      Wall(6000, << <<-1, 0, 0>> >>),
      Wall(6000, << <<1, 0, 0>> >>) }

\* an IfcWindow: Height 1.5004 m, Width 0.8006 m, placed at (loc_x, 0.07, 1.2)
IfcWindow(tag, sill, loc_x, box) ==
    [type |-> "IfcWindow", Name |-> "Window", Tag |-> tag,
     Height |-> 15004, Width |-> 8006, SillHeight |-> sill,
     Location |-> <<loc_x, 70, 1200>>, box |-> box]

\* an IfcSpace with a rectangular profile of 3.0004 m by 4.0006 m
IfcSpace(longName, name, box) ==
    [LongName |-> longName, Name |-> name,
     prop |-> [kind |-> "IfcRectangleProfileDef", XDim |-> 30004,
               YDim |-> 40006, Points |-> <<>>],
     Height |-> 25003, box |-> box, BoundedBy |-> <<>>]

LongNames == {"Bedroom", "Hallway", "Roof"}

\* the points a polygon profile is drawn from
ProfilePoints == { <<0, 0>>, <<30004, 0>>, <<10002, 40006>>, <<10007, 5>> }

\* an IfcSpace with an arbitrary closed profile and no window near it
PolygonSpace(longName, name, points) ==
    [LongName |-> longName, Name |-> name,
     prop |-> [kind |-> "IfcArbitraryClosedProfileDef", XDim |-> 0,
               YDim |-> 0, Points |-> points],
     Height |-> 25003, box |-> <<>>, BoundedBy |-> <<>>]

SpaceCodes == <<"A101", "A102", "A103", "A104">>

\* the sill height and the placement of a window: without and with a sill
\* height; within the room, beyond its width only, and beyond both dimensions
SillAndPlacement ==
    { <<NoneVal, 500>>, <<9006, 500>>, <<9006, 3500>>, <<9006, 5000>> }

\* one space with one window; the window's walls, sill and placement vary
InitWindow ==
    \E box \in SeqsUpTo(Candidates, MaxCand), sp \in SillAndPlacement,
       longName \in LongNames :
        model = [spaces |->
                    << IfcSpace(longName, SpaceCodes[1],
                                << IfcWindow("W0", sp[1], sp[2], box) >>) >>]

\* MaxSpaces spaces whose expanded boxes hold up to MaxBox of two windows
InitBuilding ==
    \E sp \in { <<NoneVal, 500>>, <<9006, 5000>> } :
        LET w1 == IfcWindow("W1", sp[1], sp[2], << Wall(4000, << <<0, 1, 0>> >>) >>)
            w2 == IfcWindow("W2", 9006, 3500, <<>>)
        IN  \E longNames \in [1..MaxSpaces -> {"Bedroom", "Hallway"}],
               boxes \in [1..MaxSpaces -> DistinctSeqs({w1, w2}, MaxBox)] :
                model = [spaces |-> [k \in 1..MaxSpaces |->
                            IfcSpace(longNames[k], SpaceCodes[k], boxes[k])]]

\* one space with a polygon profile of up to MaxPoints points, in any order
InitProfile ==
    \E points \in SeqsUpTo(ProfilePoints, MaxPoints), longName \in LongNames :
        model = [spaces |-> << PolygonSpace(longName, SpaceCodes[1], points) >>]

\* a relation of IsDefinedBy to a property set with the given properties
PropertySet(props) ==
    [str |-> "#1=IfcRelDefinesByProperties(...)", HasProperties |-> props]

\* a relation of IsDefinedBy that is no IfcRelDefinesByProperties
TypeRelation == [str |-> "#1=IfcRelDefinesByType(...)", HasProperties |-> <<>>]

Property(name, value) == [Name |-> name, wrappedValue |-> value]

\* an IfcDoor of 2.1004 m by 0.9006 m
IfcDoor(tag, name, rels) ==
    [type |-> "IfcDoor", Name |-> name, Tag |-> tag, OverallHeight |-> 21004,
     OverallWidth |-> 9006, IsDefinedBy |-> rels]

\* doors: without relations, with the flag true, false, absent, with a
\* relation that is no property set, and with the flag in a second set
Doors ==
    { IfcDoor("D0", "Door", <<>>),
      IfcDoor("D1", "Exterior Glass Door",
              << PropertySet(<< Property("IsExternal", TRUE) >>) >>),
      IfcDoor("D2", "Door", << PropertySet(<< Property("IsExternal", FALSE) >>) >>),
      IfcDoor("D3", "Door", << PropertySet(<< Property("FireExit", TRUE) >>) >>),
      IfcDoor("D4", "Door", << TypeRelation >>),
      IfcDoor("D5", "Door",
              << PropertySet(<< Property("IsExternal", FALSE) >>),
                 PropertySet(<< Property("FireExit", TRUE),
                                Property("IsExternal", TRUE) >>) >>) }

\* one space whose expanded box holds up to MaxBox doors and windows
InitDoors ==
    \E box \in SeqsUpTo(Doors \cup {IfcWindow("W2", 9006, 3500, <<>>)}, MaxBox) :
        model = [spaces |-> << IfcSpace("Bedroom", SpaceCodes[1], box) >>]

\* a space boundary (IfcRelSpaceBoundary) and the element it relates to
Boundary(element) == [RelatedBuildingElement |-> element]

\* a material layer of thickness given in millimetres
Layer(name, thickness) == [Name |-> name, LayerThickness |-> thickness]

\* a relation of HasAssociations to a material layer set
MaterialAssociation(layers) == [MaterialLayers |-> layers]

\* a building element that bounds a space
Element(type, name, tag, rels, associations) ==
    [type |-> type, Name |-> name, Tag |-> tag, IsDefinedBy |-> rels,
     HasAssociations |-> associations]

\* boundaries: without element, an external wall of two layers, an internal
\* wall of one layer, a wall named as a roof with three layers, and a slab
Boundaries ==
    { Boundary(NoneEntity),
      Boundary(Element("IfcWallStandardCase", "Basic Wall:Exterior", "W77",
                       << PropertySet(<< Property("IsExternal", TRUE) >>) >>,
                       << MaterialAssociation(<< Layer("Brick", 100),
                                                 Layer("Air", 50) >>) >>)),
      Boundary(Element("IfcWall", "Basic Wall:Interior", "W78",
                       << TypeRelation,
                          PropertySet(<< Property("FireExit", TRUE),
                                         Property("IsExternal", FALSE) >>) >>,
                       << MaterialAssociation(<< Layer("Gypsum", 12) >>) >>)),
      Boundary(Element("IfcWallStandardCase", "Basic Wall:Roof Parapet", "W79",
                       <<>>,
                       << MaterialAssociation(<< Layer("Concrete", 1250),
                                                 Layer("Air", 50),
                                                 Layer("Brick", 100) >>) >>)),
      Boundary(Element("IfcSlab", "Floor:Concrete", "S1", <<>>,
                       << MaterialAssociation(<< Layer("Concrete", 200) >>) >>)) }

\* one space bounded by up to MaxBounded elements
InitWalls ==
    \E bounded \in SeqsUpTo(Boundaries, MaxBounded) :
        model = [spaces |->
                    << [IfcSpace("Bedroom", SpaceCodes[1], <<>>)
                            EXCEPT !.BoundedBy = bounded] >>]

\* illuminance values of a grid point, in lux, on both sides of 210
LuxValues == {209, 210}

\* what the simulation returns (honeybee_plus): one value for each point of
\* the analysis grid.  The library is not part of the source and nothing in
\* the source excludes a grid without points, so the empty list is one of
\* the results.
ResultSets == SeqsUpTo(LuxValues, MaxGrid)

\* texts typed for the space code: the codes of the model and another text
CodeTexts == { SpaceCodes[k] : k \in 1..MaxSpaces } \cup {"a101"}

\* texts typed for the three numbers
LightTrTexts == {"0.6", "0,6"}
GridsizeTexts == {" .5", "half"}
HeightTexts == {"0.75", ""}

\* texts typed for the three questions
YesNoTexts == {"Yes", "no", "y"}

\* cells handed to excelWrite: [col, text], [col, text, formatting] and a
\* cell of one item
ExcelCells == { <<0, "text">>, <<1, "text", cell_format>>, <<2>> }

\* lines handed to excelWrite: None or a list of cells
ExcelLines == {NoneRow} \cup SeqsUpTo(ExcelCells, MaxCells)

-----------------------------------------------------------------------------
(* The script: the loader's main(), then main.py from top to bottom *)

\* the state before the first statement of the script
Unset ==
    /\ windowSheet = <<>>
    /\ spaceOut = <<>>
    /\ windowOut = <<>>
    /\ AnalysisSpace = <<>>
    /\ MyAnalysis = <<>>
    /\ spacename = ""
    /\ excelOut = <<>>
    /\ most_materials = 0
    /\ wallHeader = <<>>
    /\ resultList = <<>>
    /\ report = [count |-> 0, countT |-> 0, verdict |-> ""]
    /\ printed = <<>>
    /\ spaceNameList = <<>>
    /\ lightTr = NoneVal
    /\ gridsize = NoneVal
    /\ analysisPlaneHeight = NoneVal
    /\ printInfo = ""
    /\ showPlot = ""
    /\ blur = ""
    /\ plot = <<>>

Init ==
    /\ InitWindow \/ InitBuilding \/ InitProfile \/ InitDoors \/ InitWalls
    /\ pc = "main"
    /\ excelArg = <<>>
    /\ Unset

\* main(): the "Spaces" sheet calls spaceDims for every space, and an
\* exception there ends the script; then the lines of the "Windows", of the
\* "External Doors" and of the "Walls" sheet, each handed to excelWrite, the
\* last after the material headers of the walls.  (The fixed header cells of
\* row 0 and the "Assumptions" sheet, which no input changes, are not held in
\* the state.)
LoaderMain ==
    /\ pc = "main"
    /\ IF \E k \in 1..Len(model.spaces) : spaceDimsRaises(model.spaces[k])
       THEN /\ pc' = "error"
            /\ UNCHANGED <<windowSheet, excelArg, excelOut, most_materials,
                           wallHeader>>
       ELSE LET lines == << spaceFuncFlat(model.spaces),
                            spaceFuncNested(model.spaces, TRUE, FALSE, FALSE, TRUE),
                            spaceFuncNested(model.spaces, FALSE, TRUE, FALSE, TRUE),
                            spaceFuncNested(model.spaces, FALSE, FALSE, TRUE, TRUE) >>
                out == [k \in 1..Len(lines) |-> excelWrite(lines[k])]
                most == getMaterialAndQuantitiesHeaders(model.spaces)
            IN  /\ excelArg' = lines
                /\ excelOut' = out
                /\ windowSheet' = lines[2]
                /\ most_materials' = most
                /\ wallHeader' = wallHeaderLoop(6, (most * 2) + 6, 1)
                /\ pc' = IF \E k \in 1..Len(out) : out[k].raised
                         THEN "error" ELSE "spaceOut"
    /\ UNCHANGED <<model, spaceOut, windowOut, AnalysisSpace, MyAnalysis,
                   spacename, resultList, report, printed, spaceNameList,
                   answers, plot>>

\* main.py: out = [] ... spaceOut = [x for x in out if x != []]
BuildSpaceOut ==
    /\ pc = "spaceOut"
    /\ spaceOut' = makeSpaceOut(model.spaces)
    /\ pc' = "windowOut"
    /\ UNCHANGED <<model, windowSheet, windowOut, AnalysisSpace, MyAnalysis,
                   spacename, excelArg, excelOut, most_materials, wallHeader,
                   resultList, report, printed, spaceNameList, answers, plot>>

\* main.py: windowOut = SpaceParams(spaceFunc(...)).out ...
BuildWindowOut ==
    /\ pc = "windowOut"
    /\ windowOut' = makeWindowOut(model.spaces)
    /\ pc' = "spaces"
    /\ UNCHANGED <<model, windowSheet, spaceOut, AnalysisSpace, MyAnalysis,
                   spacename, excelArg, excelOut, most_materials, wallHeader,
                   resultList, report, printed, spaceNameList, answers, plot>>

\* what main.py and the loader leave alone once the lists are built
built == <<model, windowSheet, windowOut, excelArg, excelOut, most_materials,
           wallHeader>>

\* main.py l.480-484: AnalysisSpace = Spaces(spaceOut, windowOut) and
\* spaceNameList, the codes of its spaces; the script then waits at l.486
BuildSpaces ==
    /\ pc = "spaces"
    /\ LET S == SpacesInit(spaceOut, windowOut)
       IN  /\ AnalysisSpace' = S.spaces
           /\ spaceOut' = S.spaceOut
           /\ spaceNameList' = [k \in 1..Len(S.spaces) |-> S.spaces[k].name]
    /\ pc' = "spacename"
    /\ UNCHANGED <<built, MyAnalysis, spacename, resultList, report, printed,
                   answers, plot>>

\* spacename = input(...) returns text; while spacename not in spaceNameList
\* the script waits at l.491, else at l.493
spacenameTyped(text) ==
    /\ spacename' = text
    /\ pc' = IF \E k \in 1..Len(spaceNameList) : spaceNameList[k] = text
             THEN "lightTr" ELSE "spacenameAgain"
    /\ UNCHANGED <<built, spaceOut, AnalysisSpace, MyAnalysis, resultList,
                   report, printed, spaceNameList, answers, plot>>

\* main.py l.486-489: the first space code typed
InputSpacename ==
    /\ pc = "spacename"
    /\ \E text \in CodeTexts : spacenameTyped(text)

\* main.py l.489-491: a space code typed after a wrong one
InputSpacenameAgain ==
    /\ pc = "spacenameAgain"
    /\ \E text \in CodeTexts : spacenameTyped(text)

\* main.py l.493-497: lightTr = float(input(...)); ValueError ends the script
InputLightTr ==
    /\ pc = "lightTr"
    /\ \E text \in LightTrTexts :
          IF floatRaises(text)
          THEN pc' = "error" /\ UNCHANGED lightTr
          ELSE pc' = "gridsize" /\ lightTr' = float(text)
    /\ UNCHANGED <<built, spaceOut, AnalysisSpace, MyAnalysis, spacename,
                   resultList, report, printed, spaceNameList, gridsize,
                   analysisPlaneHeight, printInfo, showPlot, blur, plot>>

\* main.py l.499: gridsize = float(input(...))
InputGridsize ==
    /\ pc = "gridsize"
    /\ \E text \in GridsizeTexts :
          IF floatRaises(text)
          THEN pc' = "error" /\ UNCHANGED gridsize
          ELSE pc' = "analysisPlaneHeight" /\ gridsize' = float(text)
    /\ UNCHANGED <<built, spaceOut, AnalysisSpace, MyAnalysis, spacename,
                   resultList, report, printed, spaceNameList, lightTr,
                   analysisPlaneHeight, printInfo, showPlot, blur, plot>>

\* main.py l.500-504: analysisPlaneHeight = float(input(...))
InputAnalysisPlaneHeight ==
    /\ pc = "analysisPlaneHeight"
    /\ \E text \in HeightTexts :
          IF floatRaises(text)
          THEN pc' = "error" /\ UNCHANGED analysisPlaneHeight
          ELSE pc' = "printInfo" /\ analysisPlaneHeight' = float(text)
    /\ UNCHANGED <<built, spaceOut, AnalysisSpace, MyAnalysis, spacename,
                   resultList, report, printed, spaceNameList, lightTr,
                   gridsize, printInfo, showPlot, blur, plot>>

\* what is left alone while the three questions are answered
asked == <<built, spaceOut, AnalysisSpace, MyAnalysis, spacename, resultList,
           report, printed, spaceNameList, lightTr, gridsize,
           analysisPlaneHeight, plot>>

\* main.py l.505-512: the first answer to "print info?"
InputPrintInfo ==
    /\ pc = "printInfo"
    /\ \E text \in YesNoTexts :
          /\ printInfo' = yesNo(text)
          /\ pc' = IF yesNoAsksAgain(text) THEN "printInfoAgain" ELSE "showPlot"
    /\ UNCHANGED <<asked, showPlot, blur>>

\* main.py l.507-512: an answer after one that was neither yes nor no
InputPrintInfoAgain ==
    /\ pc = "printInfoAgain"
    /\ \E text \in YesNoTexts :
          /\ printInfo' = yesNo(text)
          /\ pc' = IF yesNoAsksAgain(text) THEN "printInfoAgain" ELSE "showPlot"
    /\ UNCHANGED <<asked, showPlot, blur>>

\* main.py l.515-522: the first answer to "show plot?"
InputShowPlot ==
    /\ pc = "showPlot"
    /\ \E text \in YesNoTexts :
          /\ showPlot' = yesNo(text)
          /\ pc' = IF yesNoAsksAgain(text) THEN "showPlotAgain" ELSE "blur"
    /\ UNCHANGED <<asked, printInfo, blur>>

\* main.py l.517-522
InputShowPlotAgain ==
    /\ pc = "showPlotAgain"
    /\ \E text \in YesNoTexts :
          /\ showPlot' = yesNo(text)
          /\ pc' = IF yesNoAsksAgain(text) THEN "showPlotAgain" ELSE "blur"
    /\ UNCHANGED <<asked, printInfo, blur>>

\* main.py l.525-531: the first answer to "blurred?"; after the answer the
\* script calls resultsOut
InputBlur ==
    /\ pc = "blur"
    /\ \E text \in YesNoTexts :
          /\ blur' = yesNo(text)
          /\ pc' = IF yesNoAsksAgain(text) THEN "blurAgain" ELSE "resultsOut"
    /\ UNCHANGED <<asked, printInfo, showPlot>>

\* main.py l.526-531
InputBlurAgain ==
    /\ pc = "blurAgain"
    /\ \E text \in YesNoTexts :
          /\ blur' = yesNo(text)
          /\ pc' = IF yesNoAsksAgain(text) THEN "blurAgain" ELSE "resultsOut"
    /\ UNCHANGED <<asked, printInfo, showPlot>>

\* resultsOut(spacename, lightTr, gridsize, analysisPlaneHeight, printInfo,
\* showPlot, blur), main.py l.533-536: MyAnalysis = Analysis(...) (an
\* exception raised in it ends the script),
\* AnalysisSpace = Spaces(spaceOut, windowOut), the loop over the values the
\* simulation returns, DFresult = count / countT * 100 (ZeroDivisionError
\* when there is no value: the script ends before anything is printed), the
\* verdict, Spaces.print if printInfo, and the plot if showPlot (range()
\* raises ValueError when dim is 0, after the report)
ResultsOut ==
    /\ pc = "resultsOut"
    /\ LET A == AnalysisInit(spaceOut, windowOut)
           S == SpacesInit(A.spaceOut, windowOut)
           dim == dimOf(spacedimLoop(0, S.spaces, spacename), gridsize)
       IN  IF A.raised
           THEN /\ pc' = "error"
                /\ spaceOut' = A.spaceOut
                /\ UNCHANGED <<MyAnalysis, AnalysisSpace, resultList, report,
                               printed, plot>>
           ELSE
           /\ MyAnalysis' = A.spaces
           /\ AnalysisSpace' = S.spaces
           /\ spaceOut' = S.spaceOut
           /\ \E values \in ResultSets :
                 LET st == resultsLoop([resultList |-> <<>>, count |-> 0,
                                        countT |-> 0], values)
                 IN  /\ resultList' = st.resultList
                     /\ IF st.countT = 0
                        THEN /\ pc' = "error"
                             /\ UNCHANGED <<report, printed, plot>>
                        ELSE
                        /\ report' = [count |-> st.count, countT |-> st.countT,
                                      verdict |-> verdictOf(st.count, st.countT)]
                        /\ printed' = IF printInfo = TRUE
                                      THEN SpacesPrint(S.spaces, spacename)
                                      ELSE <<>>
                        /\ IF showPlot = TRUE
                           THEN IF dim = 0
                                THEN pc' = "error" /\ UNCHANGED plot
                                ELSE /\ plot' = [z |-> zOf(st.resultList, dim),
                                                 interpolation |-> interpolationOf(blur)]
                                     /\ pc' = "done"
                           ELSE pc' = "done" /\ UNCHANGED plot
    /\ UNCHANGED <<built, spacename, spaceNameList, answers>>

Next ==
    \/ LoaderMain \/ BuildSpaceOut \/ BuildWindowOut \/ BuildSpaces
    \/ InputSpacename \/ InputSpacenameAgain
    \/ InputLightTr \/ InputGridsize \/ InputAnalysisPlaneHeight
    \/ InputPrintInfo \/ InputPrintInfoAgain
    \/ InputShowPlot \/ InputShowPlotAgain
    \/ InputBlur \/ InputBlurAgain
    \/ ResultsOut

Spec == Init /\ [][Next]_vars

\* excelWrite on its own: any list of up to MaxLines lines
InitExcel ==
    /\ \E lines \in SeqsUpTo(ExcelLines, MaxLines) : excelArg = <<lines>>
    /\ pc = "excelWrite"
    /\ model = [spaces |-> <<>>]
    /\ Unset

\* excelWrite(sheet, lines) for the lines of excelArg
ExcelWriteCall ==
    /\ pc = "excelWrite"
    /\ excelOut' = [k \in 1..Len(excelArg) |-> excelWrite(excelArg[k])]
    /\ pc' = IF \E k \in 1..Len(excelArg) : excelWrite(excelArg[k]).raised
             THEN "error" ELSE "written"
    /\ UNCHANGED <<model, windowSheet, spaceOut, windowOut, AnalysisSpace,
                   MyAnalysis, spacename, excelArg, most_materials, wallHeader,
                   resultList, report, printed, spaceNameList, answers, plot>>

NextExcel == ExcelWriteCall

SpecExcel == InitExcel /\ [][NextExcel]_vars

-----------------------------------------------------------------------------
(* Vocabulary of the properties *)

\* the window entities of the model, and the one with a given tag
IfcWindows ==
    UNION { { model.spaces[k].box[i] :
                i \in { j \in 1..Len(model.spaces[k].box) :
                           model.spaces[k].box[j].type = "IfcWindow" } } :
            k \in 1..Len(model.spaces) }

IfcWindowOf(tag) == CHOOSE w \in IfcWindows : w.Tag = tag

\* the space entity with a given code
IfcSpaceOf(code) ==
    model.spaces[CHOOSE k \in 1..Len(model.spaces) : model.spaces[k].Name = code]

\* the entries of the window records that carry a room code, in input order
EntriesOf(code) ==
    LET recs == SelectSeq(windowOut, LAMBDA rec : rec[2] = code)
    IN  Flatten([k \in 1..Len(recs) |-> SubSeq(recs[k], 3, Len(recs[k]))])

\* the entries of all window records
AllEntries ==
    Flatten([k \in 1..Len(windowOut) |-> SubSeq(windowOut[k], 3, Len(windowOut[k]))])

\* the room codes of the assembled rooms
RoomCodes(rooms) == { rooms[k].name : k \in 1..Len(rooms) }

\* the wall-type candidates of a window, in traversal order
WallsOf(w) == SelectSeq(w.box, LAMBDA c : c.isWall)

\* the orientation table of the classifier; "" is Unknown
OrientationTable(RefDirection) ==
    IF RefDirection = <<>> \/ RefDirection = << <<0, 0, 0>> >> THEN "front"
    ELSE IF RefDirection = << <<0, -1, 0>> >> THEN "right"
    ELSE IF RefDirection = << <<0, 1, 0>> >> THEN "left"
    ELSE IF RefDirection = << <<-1, 0, 0>> >> THEN "back"
    ELSE ""

\* the rooms are assembled from window records by the order and code rule
AssembledByCode(rooms) ==
    \A k \in 1..Len(rooms) :
        LET es == EntriesOf(rooms[k].name)
            ws == rooms[k].windows
        IN  /\ Len(ws) = Len(es)
            /\ \A i \in 1..Len(ws) : ws[i].name = es[i][1]

\* a tag carried only by records whose code is no room's code is in no room
UnmatchedDropped(rooms) ==
    \A r \in 1..Len(windowOut) : \A i \in 3..Len(windowOut[r]) :
        LET tag == windowOut[r][i][1]
        IN  (\A q \in 1..Len(windowOut) :
                (\E j \in 3..Len(windowOut[q]) : windowOut[q][j][1] = tag)
                    => windowOut[q][2] \notin RoomCodes(rooms))
            => \A k \in 1..Len(rooms) : \A j \in 1..Len(rooms[k].windows) :
                    rooms[k].windows[j].name # tag

-----------------------------------------------------------------------------
(* Properties *)

\* C1: every assembled room's window sequence is exactly the windows of the
\* window records carrying the room's code, in input order, and a window whose
\* room code is no room's code is in no room's window list.
RoomWindowsMatchByCodeInOrder ==
    /\ AssembledByCode(AnalysisSpace) /\ UnmatchedDropped(AnalysisSpace)
    /\ AssembledByCode(MyAnalysis) /\ UnmatchedDropped(MyAnalysis)

\* C1 witness: a room assembled with two windows while another record's window
\* was dropped because no room carries its code
TwoWindowsKeptOneDropped ==
    /\ pc = "done"
    /\ \E k \in 1..Len(AnalysisSpace) : Len(AnalysisSpace[k].windows) = 2
    /\ \E r \in 1..Len(windowOut) :
          /\ Len(windowOut[r]) > 2
          /\ windowOut[r][2] \notin RoomCodes(AnalysisSpace)

\* C2: the corrected location is (wall_length - rawX - width, rawY) when rawX
\* is greater than both room dimensions and (rawX, rawY) otherwise; the glazing
\* starts there, and loc_y is never changed.  The raw values are those of the
\* Spaces object built from the same lists.
PlacementCorrectedOnlyWhenBeyondBoth ==
    pc = "done" =>
        \A k \in 1..Len(MyAnalysis) : \A i \in 1..Len(MyAnalysis[k].windows) :
            LET space == MyAnalysis[k]
                w == space.windows[i]
                raw == AnalysisSpace[k].windows[i]
                x == IF raw.loc_x > space.sx /\ raw.loc_x > space.sy
                     THEN raw.wall_length - raw.loc_x - raw.wx
                     ELSE raw.loc_x
            IN  /\ w.loc_x = x
                /\ w.loc_y = raw.loc_y
                /\ \E s \in 1..Len(space.room.surfaces) :
                      \E f \in 1..Len(space.room.surfaces[s].fenestration) :
                          LET g == space.room.surfaces[s].fenestration[f]
                          IN  g.name = w.name /\ g.glzpts[1] = <<x, 0, raw.loc_y>>

\* C2 witness: a window beyond both room dimensions was moved
WindowBeyondBothMoved ==
    /\ pc = "done"
    /\ \E k \in 1..Len(MyAnalysis) : \E i \in 1..Len(MyAnalysis[k].windows) :
          LET raw == AnalysisSpace[k].windows[i]
          IN  /\ raw.loc_x > MyAnalysis[k].sx /\ raw.loc_x > MyAnalysis[k].sy
              /\ MyAnalysis[k].windows[i].loc_x # raw.loc_x

\* C3: every glazing is built from a location with 0 <= loc_x <= wall_length
\* (the code has no path that flags a window or holds one back).
GlazingWithinWall ==
    \A k \in 1..Len(MyAnalysis) : \A i \in 1..Len(MyAnalysis[k].windows) :
        LET w == MyAnalysis[k].windows[i]
        IN  \A s \in 1..Len(MyAnalysis[k].room.surfaces) :
            \A f \in 1..Len(MyAnalysis[k].room.surfaces[s].fenestration) :
                LET g == MyAnalysis[k].room.surfaces[s].fenestration[f]
                IN  g.name = w.name =>
                        0 <= g.glzpts[1][1] /\ g.glzpts[1][1] <= w.wall_length

\* C4: with several wall-type candidates, the reported wall length and the
\* reported orientation are both those of the last one (Unknown when its
\* direction is not canonical).
LastWallDecidesLengthAndOrientation ==
    \A e \in 1..Len(AllEntries) :
        LET walls == WallsOf(IfcWindowOf(AllEntries[e][1]))
        IN  Len(walls) >= 2 =>
                /\ AllEntries[e][6] = walls[Len(walls)].Length
                /\ AllEntries[e][5] = OrientationTable(walls[Len(walls)].RefDirection)

\* C5: the orientation recorded for a supporting wall is the table's label of
\* the wall's reference direction, so the same direction always gives the same
\* label.
OrientationIsTableOfDirection ==
    \A e \in 1..Len(AllEntries) :
        LET walls == WallsOf(IfcWindowOf(AllEntries[e][1]))
        IN  walls # <<>> =>
                AllEntries[e][5] = OrientationTable(walls[Len(walls)].RefDirection)

\* C6: a window whose wall orientation is Unknown gets no fenestration surface
\* on any surface of its room.
UnknownOrientationNotPlaced ==
    \A k \in 1..Len(MyAnalysis) : \A i \in 1..Len(MyAnalysis[k].windows) :
        LET w == MyAnalysis[k].windows[i]
        IN  w.wall_name = "" =>
                \A s \in 1..Len(MyAnalysis[k].room.surfaces) :
                \A f \in 1..Len(MyAnalysis[k].room.surfaces[s].fenestration) :
                    MyAnalysis[k].room.surfaces[s].fenestration[f].name # w.name

\* the rooms take width from XDim and depth from YDim of a rectangular profile
DimsOfProfile(rooms) ==
    \A k \in 1..Len(rooms) :
        LET prop == IfcSpaceOf(rooms[k].name).prop
        IN  prop.kind = "IfcRectangleProfileDef" =>
                rooms[k].sx = Round3(prop.XDim) /\ rooms[k].sy = Round3(prop.YDim)

\* C7: for a rectangular profile the assembled room's width is the profile's
\* XDim and its depth the profile's YDim, rounded to 3 decimals.
RectangleWidthIsXDimDepthIsYDim ==
    DimsOfProfile(AnalysisSpace) /\ DimsOfProfile(MyAnalysis)

\* C8: each assembled Window's width is the source window's Width and its
\* height the source window's Height.
WindowWidthIsSourceWidth ==
    \A k \in 1..Len(AnalysisSpace) : \A i \in 1..Len(AnalysisSpace[k].windows) :
        LET w == AnalysisSpace[k].windows[i]
            src == IfcWindowOf(w.name)
        IN  w.wx = Round3(src.Width) /\ w.wy = Round3(src.Height)

\* the sill height of every window is the record's, or 0.1 for a record with
\* None
SillOfRecord(rooms) ==
    \A k \in 1..Len(rooms) :
        LET es == EntriesOf(rooms[k].name)
        IN  \A i \in 1..Len(rooms[k].windows) :
                LET sill == rooms[k].windows[i].sillHeight
                IN  /\ sill # NoneVal
                    /\ es[i][4] # NoneVal => sill = es[i][4]
                    /\ es[i][4] = NoneVal => sill = 100

\* C9: every Window of every Room has a defined sillHeight: the source
\* record's value when it gives one, 0.1 when the record's is None.
SillHeightDefinedAndDefaulted ==
    SillOfRecord(AnalysisSpace) /\ SillOfRecord(MyAnalysis)

\* C9 witness: a window whose record has no sill height is assembled with 0.1
MissingSillDefaulted ==
    \E k \in 1..Len(MyAnalysis) : \E i \in 1..Len(MyAnalysis[k].windows) :
        /\ EntriesOf(MyAnalysis[k].name)[i][4] = NoneVal
        /\ MyAnalysis[k].windows[i].sillHeight = 100

\* C10: no window row handed to the report writer and no Window handed to the
\* simulation holds an undefined sill height or wall length.
NoUndefinedNumberReachesConsumers ==
    /\ \A r \in 1..Len(windowSheet) :
          Len(windowSheet[r]) = 5 => windowSheet[r][5][2] # NoneVal
    /\ \A k \in 1..Len(MyAnalysis) : \A i \in 1..Len(MyAnalysis[k].windows) :
          /\ MyAnalysis[k].windows[i].sillHeight # NoneVal
          /\ MyAnalysis[k].windows[i].wall_length # NoneVal


-----------------------------------------------------------------------------
(* Properties: ownership of windows *)

\* C11: no source window (by its tag) is in the window lists of two different
\* rooms, also when the expanded boxes of two rooms both contain it.
WindowInOneRoomOnly ==
    \A k1, k2 \in 1..Len(AnalysisSpace) :
        k1 # k2 =>
            \A i \in 1..Len(AnalysisSpace[k1].windows) :
            \A j \in 1..Len(AnalysisSpace[k2].windows) :
                AnalysisSpace[k1].windows[i].name # AnalysisSpace[k2].windows[j].name


-----------------------------------------------------------------------------
(* Properties: room profiles *)

\* the spaces of the model with a polygon profile that are not excluded
PolygonSpaces ==
    { k \in 1..Len(model.spaces) :
        /\ model.spaces[k].prop.kind = "IfcArbitraryClosedProfileDef"
        /\ model.spaces[k].LongName \notin {"Hallway", "Roof"} }

\* the records of spaceOut with a given code
RecordsOf(code) == { r \in 1..Len(spaceOut) : spaceOut[r][2] = code }

\* the script has ended with an exception raised in main() of the loader
LoaderRaised == pc = "error" /\ spaceNameList = <<>> /\ spacename = ""

\* spaceOut has been built
SpaceOutBuilt == pc \notin {"main", "spaceOut"} /\ ~LoaderRaised

\* Spaces has been built at l.480
SpacesBuilt == SpaceOutBuilt /\ pc \notin {"windowOut", "spaces"}

\* a space code has been accepted at the prompt (l.489 left)
CodeAccepted == SpacesBuilt /\ pc \notin {"spacename", "spacenameAgain"}

\* resultsOut has printed its report
Reported == report.verdict # ""

\* C12: a polygon profile with at most one vertex raises no error and yields
\* width = depth = 0.
DegenerateProfileGivesZero ==
    \A k \in PolygonSpaces :
        Len(model.spaces[k].prop.Points) <= 1 =>
            /\ ~LoaderRaised
            /\ SpaceOutBuilt =>
                  \E r \in RecordsOf(model.spaces[k].Name) :
                      spaceOut[r][3] = 0 /\ spaceOut[r][4] = 0

\* the bounding box of a set of points, from the set alone
MaxOf(S) == CHOOSE m \in S : \A x \in S : x <= m
MinOf(S) == CHOOSE m \in S : \A x \in S : m <= x
PointsOf(k) ==
    { model.spaces[k].prop.Points[i] : i \in 1..Len(model.spaces[k].prop.Points) }
XsOf(k) == { p[1] : p \in PointsOf(k) }
YsOf(k) == { p[2] : p \in PointsOf(k) }
BoxWidth(k) == MaxOf(XsOf(k)) - MinOf(XsOf(k))
BoxDepth(k) == MaxOf(YsOf(k)) - MinOf(YsOf(k))

\* C15 as stated: the room's width is maxX - minX and its depth maxY - minY
\* (the record is in millimetres, the points in units of 1e-4 m).
PolygonDimsAreExactBoundingBox ==
    \A k \in PolygonSpaces : \A r \in RecordsOf(model.spaces[k].Name) :
        /\ spaceOut[r][3] * 10 = BoxWidth(k)
        /\ spaceOut[r][4] * 10 = BoxDepth(k)

\* C15 as amended: the width is maxX - minX and the depth maxY - minY, each
\* computed in floating point and then rounded to 3 decimals; both depend on
\* the set of points only, so every order of the same points gives the same
\* result.
PolygonDimsAreRoundedBoundingBox ==
    \A k \in PolygonSpaces : \A r \in RecordsOf(model.spaces[k].Name) :
        /\ spaceOut[r][3] = RoundSub3(MaxOf(XsOf(k)), MinOf(XsOf(k)))
        /\ spaceOut[r][4] = RoundSub3(MaxOf(YsOf(k)), MinOf(YsOf(k)))

\* C15 witness: a polygon whose first point is neither its leftmost nor its
\* lowest corner has been measured
PolygonMeasuredOutOfOrder ==
    \E k \in PolygonSpaces : \E r \in RecordsOf(model.spaces[k].Name) :
        LET pts == model.spaces[k].prop.Points
        IN  /\ Len(pts) = 3
            /\ pts[1] = <<10002, 40006>>
            /\ pts[3] = <<0, 0>>
            /\ spaceOut[r][3] = 3000 /\ spaceOut[r][4] = 4001

-----------------------------------------------------------------------------
(* Properties: excluded rooms *)

Excluded(k) == model.spaces[k].LongName \in {"Hallway", "Roof"}

RoomsOf(rooms, code) == { r \in 1..Len(rooms) : rooms[r].name = code }

\* C13: a Hallway or Roof space contributes no entry to spaceOut and no Room,
\* and its code is not among the codes accepted for analysis: it is not in
\* spaceNameList, and once the prompt for the code has been left (the user
\* may have typed it there and been asked again) spacename is not that code;
\* every other space contributes exactly one entry and, once Spaces is
\* built, exactly one Room.
ExcludedRoomsNeverAnalysed ==
    \A k \in 1..Len(model.spaces) :
        LET code == model.spaces[k].Name
        IN  IF Excluded(k)
            THEN /\ RecordsOf(code) = {}
                 /\ RoomsOf(AnalysisSpace, code) = {}
                 /\ RoomsOf(MyAnalysis, code) = {}
                 /\ \A i \in 1..Len(spaceNameList) : spaceNameList[i] # code
                 /\ CodeAccepted => spacename # code
            ELSE /\ SpaceOutBuilt => Cardinality(RecordsOf(code)) = 1
                 /\ SpacesBuilt =>
                        /\ Cardinality(RoomsOf(AnalysisSpace, code)) = 1
                        /\ \E i \in 1..Len(spaceNameList) : spaceNameList[i] = code
                 /\ MyAnalysis # <<>> => Cardinality(RoomsOf(MyAnalysis, code)) = 1

\* C13 witness: over a model with a Hallway and a Bedroom the code of the
\* Hallway has been typed and the script asks again, with one Room built
HallwayTypedAndRefused ==
    /\ pc = "spacenameAgain"
    /\ \E k \in 1..Len(model.spaces) :
          model.spaces[k].LongName = "Hallway" /\ model.spaces[k].Name = spacename
    /\ Len(AnalysisSpace) = 1 /\ Len(spaceNameList) = 1

-----------------------------------------------------------------------------
(* Properties: the report writer *)

\* the cells of the lines that are not None, in the order excelWrite visits them
CellsOf(lines) == Flatten(SelectSeq(lines, LAMBDA line : line # NoneRow))

\* the positions in a list of cells of those with neither 2 nor 3 items
MalformedIn(cells) == { j \in 1..Len(cells) : Len(cells[j]) \notin {2, 3} }

\* C14: when some cell of the lines has neither 2 nor 3 items, excelWrite
\* raises, the run is aborted, and the cells written are exactly those before
\* the first such cell: no cell after it is written.
MalformedRecordAborts ==
    \A s \in 1..Len(excelOut) :
        LET cells == CellsOf(excelArg[s])
            bad == MalformedIn(cells)
            first == CHOOSE j \in bad : \A j2 \in bad : j <= j2
            w == excelOut[s].writes
        IN  bad # {} =>
                /\ excelOut[s].raised
                /\ pc = "error"
                /\ Len(w) = first - 1
                /\ \A j \in 1..Len(w) :
                        /\ w[j][2] = cells[j][1]
                        /\ w[j][3] = cells[j][2]

\* a call that wrote a cell, met a malformed one and left a well-formed cell
\* after it unwritten
MalformedBetweenWellFormed ==
    /\ excelOut # <<>>
    /\ excelOut[1].raised
    /\ Len(excelOut[1].writes) >= 1
    /\ LET cells == CellsOf(excelArg[1])
       IN  /\ Len(cells) > Len(excelOut[1].writes) + 1
           /\ Len(cells[Len(cells)]) = 2

\* the row of the i-th line: the number of lines up to it that are not None
RowOfLine(lines, i) == Cardinality({ j \in 1..i : lines[j] # NoneRow })

\* the row of every cell of the lines, in the order excelWrite visits them
RowsOf(lines) ==
    Flatten([i \in 1..Len(lines) |->
                IF lines[i] = NoneRow THEN <<>>
                ELSE [c \in 1..Len(lines[i]) |-> RowOfLine(lines, i)]])

\* C18: every cell of the k-th line that is not None is written to row k, so
\* rows start at 1 below the header row and None lines leave no gap.
KthLineOnRowK ==
    \A s \in 1..Len(excelOut) :
        LET rows == RowsOf(excelArg[s])
            w == excelOut[s].writes
        IN  /\ Len(w) <= Len(rows)
            /\ ~excelOut[s].raised => Len(w) = Len(rows)
            /\ \A j \in 1..Len(w) : w[j][1] = rows[j] /\ w[j][1] >= 1

\* the "Spaces" sheet of a model whose first space is skipped and whose
\* second is not: the second space is on row 1
SkippedRoomLeavesNoGap ==
    /\ excelOut # <<>>
    /\ Len(excelArg[1]) >= 2
    /\ excelArg[1][1] = NoneRow
    /\ excelArg[1][2] # NoneRow
    /\ excelOut[1].writes # <<>>
    /\ excelOut[1].writes[1] = <<1, 0, "Bedroom">>

-----------------------------------------------------------------------------
(* Properties: external doors *)

\* the door entities in the expanded box of the k-th space
DoorsOf(k) ==
    { model.spaces[k].box[i] :
        i \in { j \in 1..Len(model.spaces[k].box) :
                   model.spaces[k].box[j].type = "IfcDoor" } }

\* some property set of the door holds the flag IsExternal with value true
IsExternalDoor(door) ==
    \E r \in 1..Len(door.IsDefinedBy) :
        /\ In("IfcRelDefinesByProperties", door.IsDefinedBy[r].str)
        /\ \E p \in 1..Len(door.IsDefinedBy[r].HasProperties) :
              /\ door.IsDefinedBy[r].HasProperties[p].Name = "IsExternal"
              /\ door.IsDefinedBy[r].HasProperties[p].wrappedValue = TRUE

\* the rows of the "External Doors" sheet that carry a door tag
DoorRowsOf(tag) ==
    { r \in 1..Len(excelArg[3]) : excelArg[3][r][2] = <<3, tag>> }

\* C16: a door of a room's expanded box is among the rows kept with doorsOnly
\* exactly when one of its property sets holds IsExternal with value true; a
\* door without the flag, or with the flag false, is not kept.
DoorKeptIffExternal ==
    excelArg # <<>> =>
        \A k \in 1..Len(model.spaces) : \A door \in DoorsOf(k) :
            DoorRowsOf(door.Tag) # {} <=> IsExternalDoor(door)

\* a box with an external door and a door whose flag is false: one door row
ExternalKeptInternalDropped ==
    /\ excelArg # <<>>
    /\ \E d1, d2 \in DoorsOf(1) :
          /\ IsExternalDoor(d1)
          /\ ~IsExternalDoor(d2)
          /\ d2.IsDefinedBy # <<>>
          /\ d2.IsDefinedBy[1].HasProperties # <<>>
          /\ d2.IsDefinedBy[1].HasProperties[1].Name = "IsExternal"
          /\ DoorRowsOf(d1.Tag) # {}
          /\ DoorRowsOf(d2.Tag) = {}

-----------------------------------------------------------------------------
(* Properties: the verdict *)

\* the grid points of resultList with at least 210 lux
PointsOver == { i \in 1..Len(resultList) : resultList[i] >= 210 }

\* the verdict reported is that of the values read
VerdictIsOfResultList ==
    Reported =>
        /\ resultList # <<>>
        /\ report.countT = Len(resultList)
        /\ report.count = Cardinality(PointsOver)
        /\ report.verdict = "passes" <=>
                100 * Cardinality(PointsOver) >= 50 * Len(resultList)
        /\ report.verdict \in {"passes", "does not pass"}

-----------------------------------------------------------------------------
(* Properties: building Spaces again *)

\* a construction of Spaces leaves windowOut alone and, of every room record,
\* the five items it reads
RecordsKept ==
    /\ windowOut' = windowOut
    /\ Len(spaceOut') = Len(spaceOut)
    /\ \A k \in 1..Len(spaceOut) :
          SubSeq(spaceOut'[k], 1, 5) = SubSeq(spaceOut[k], 1, 5)

\* the same rooms with the same windows, leaving aside what Analysis adds to
\* its own rooms (the honeybee room and the corrected placement)
SameRooms(rooms1, rooms2) ==
    /\ Len(rooms1) = Len(rooms2)
    /\ \A k \in 1..Len(rooms1) :
          /\ \A f \in {"longName", "name", "sx", "sy", "sz"} :
                rooms1[k][f] = rooms2[k][f]
          /\ Len(rooms1[k].windows) = Len(rooms2[k].windows)
          /\ \A i \in 1..Len(rooms1[k].windows) :
                \A f \in {"name", "wx", "wy", "sillHeight", "wall_name",
                           "wall_length", "loc_y"} :
                    rooms1[k].windows[i][f] = rooms2[k].windows[i][f]

\* C19: the constructions of Spaces at the prompt, inside Analysis and inside
\* resultsOut give the same rooms with the same windows, and each leaves the
\* window records and the first five items of every room record unchanged.
SpacesRebuiltTheSame ==
    [][ /\ pc = "spaces" => RecordsKept
        /\ pc = "resultsOut" =>
              /\ RecordsKept
              /\ AnalysisSpace' = AnalysisSpace
              /\ SameRooms(MyAnalysis', AnalysisSpace) ]_vars

\* after resultsOut a room record holds the lists of three constructions and
\* the room still has its windows
RecordGrownThreeTimes ==
    /\ pc = "done"
    /\ \E k \in 1..Len(spaceOut) :
          /\ Len(spaceOut[k]) = 5 + 3
          /\ Len(AnalysisSpace[k].windows) = 2
          /\ Len(MyAnalysis[k].windows) = 2

-----------------------------------------------------------------------------
(* Properties: the printed placement *)

\* C20: for the room chosen at the prompt, the x location Spaces.print shows
\* for each window is the loc_x from which Analysis built the window's
\* glazing points in the same call of resultsOut.
PrintedPlacementIsSimulated ==
    (pc = "done" /\ printed # <<>>) =>
        \A k \in 1..Len(MyAnalysis) :
            MyAnalysis[k].name = spacename =>
                \A i \in 1..Len(MyAnalysis[k].windows) :
                    printed[1 + i].loc_x = Fmt(MyAnalysis[k].windows[i].loc_x, 10)

====
